---- MODULE Spec2Model ----
(***************************************************************************)
(* A model of the XML-RPC codec of go-xmlrpc (src/xmlrpc.go): the          *)
(* recursive-descent decoder `next` over the token stream of an            *)
(* xml.Decoder, the response framer `Unmarshal`, and the encoder           *)
(* `writeXML` / `Marshal`.                                                 *)
(*                                                                         *)
(* Text is a sequence of one-character strings, so that the conversions    *)
(* of the code (strconv.Atoi, strings.TrimSpace, fmt's %v, base64) are     *)
(* computed and not assumed.  A Go value is a tuple whose first element    *)
(* names its dynamic type:                                                 *)
(*   <<"nil">>  <<"bool", b>>  <<"int", n>>  <<"double", n>>               *)
(*   <<"string", text>>  <<"bytes", seq of 0..255>>  <<"time", text>>      *)
(*   <<"Array", seq of values>>  <<"Struct", [names -> values]>>           *)
(* An error is <<"ok">> (nil), <<"error", kind>> or <<"Fault", code, msg>>.*)
(***************************************************************************)
EXTENDS Integers, Sequences, FiniteSets, TLC

VARIABLES
    pc,     \* codec: "idle" | "received" | "failed" | "done" | "value" | "again"
            \* | "from";
            \* call: "call" | "request" | "panic" | "response" | "defer2"
            \* | "defer1" | "returned"
    src,    \* what the environment supplied: <<"none">>, <<"doc", tree>>,
            \* <<"cut", tree, n>>, <<"val", name, value, key order>> or
            \* <<"call", url, name, args>>
    body,   \* the token stream the decoder reads
    merr,   \* the error Marshal returned
    res,    \* what Unmarshal returned: [name, v, e, p]
    wrote,  \* the markup Marshal wrote to w
    sub,    \* a call of next on the stream: [at, r], r what it returned
    hc,     \* Client.HttpClient: the http client the Client owns
    via,    \* <<the http client that performed the POST, the url>>
    status, \* r.StatusCode
    open,   \* r.Body is not closed
    rd,     \* how many tokens of r.Body have been read
    ret,    \* what call returned: [v, e]
    again,  \* a second run of Marshal on the same value: [ord, out, e]
    Client, \* a Client shared by concurrent calls: [HttpClient, url]
    calls   \* the concurrent calls on it, each with its own locals

callVars == <<hc, via, status, open, rd, ret>>
concVars == <<Client, calls>>
vars == <<pc, src, body, merr, res, wrote, sub, hc, via, status, open, rd, ret,
          again, Client, calls>>

----------------------------------------------------------------------------
(* Text *)

Digits == <<"0", "1", "2", "3", "4", "5", "6", "7", "8", "9">>

IsDigit(c) == \E i \in 1..10 : Digits[i] = c

DigitVal(c) == (CHOOSE i \in 1..10 : Digits[i] = c) - 1

IsSpace(c) == c \in {" ", "\n", "\t", "\r"}

RECURSIVE TrimLeft(_)
TrimLeft(s) ==
    IF s # <<>> /\ IsSpace(Head(s)) THEN TrimLeft(Tail(s)) ELSE s

RECURSIVE TrimRight(_)
TrimRight(s) ==
    IF s # <<>> /\ IsSpace(s[Len(s)])
    THEN TrimRight(SubSeq(s, 1, Len(s) - 1))
    ELSE s

\* strings.TrimSpace
TrimSpace(s) == TrimRight(TrimLeft(s))

RECURSIVE DigitsVal(_, _)
DigitsVal(s, acc) ==
    IF s = <<>> THEN acc ELSE DigitsVal(Tail(s), 10 * acc + DigitVal(Head(s)))

AllDigits(s) == s # <<>> /\ \A i \in 1..Len(s) : IsDigit(s[i])

\* strconv.Atoi: an optional sign, then one or more decimal digits; on a
\* syntax error the value is 0.
Atoi(s) ==
    LET signed == s # <<>> /\ Head(s) \in {"+", "-"}
        ds     == IF signed THEN Tail(s) ELSE s
    IN  IF AllDigits(ds)
        THEN [v |-> IF signed /\ Head(s) = "-"
                    THEN 0 - DigitsVal(ds, 0) ELSE DigitsVal(ds, 0),
              ok |-> TRUE]
        ELSE [v |-> 0, ok |-> FALSE]

RECURSIVE NatText(_)
NatText(n) ==
    IF n < 10 THEN <<Digits[n + 1]>>
    ELSE NatText(n \div 10) \o <<Digits[(n % 10) + 1]>>

\* fmt's %v of an integer
FormatInt(n) == IF n < 0 THEN <<"-">> \o NatText(0 - n) ELSE NatText(n)

----------------------------------------------------------------------------
(* Values and errors *)

NoErr == <<"ok">>
Err(kind) == <<"error", kind>>
FaultErr(code, msg) == <<"Fault", code, msg>>

NilV == <<"nil">>
BoolV(b) == <<"bool", b>>
IntV(n) == <<"int", n>>
DoubleV(n) == <<"double", n>>
StringV(s) == <<"string", s>>
BytesV(b) == <<"bytes", b>>
TimeV(s) == <<"time", s>>
ArrayV(a) == <<"Array", a>>
StructV(m) == <<"Struct", m>>

Kind(v) == v[1]

EmptyMap == [x \in {} |-> NilV]

\* st[name] = value
MapPut(m, name, value) ==
    [x \in DOMAIN m \cup {name} |-> IF x = name THEN value ELSE m[x]]

----------------------------------------------------------------------------
(* The token stream of xml.Decoder: <<"S", tag>> a start element,          *)
(* <<"E", tag>> an end element, <<"C", text>> character data, <<"P">> a    *)
(* processing instruction.                                                 *)

Ret(p, n, v, e) == [p |-> p, n |-> n, v |-> v, e |-> e]

\* p.Token() at position p: the token, or an error at the end of the stream
\* (io.EOF, or a syntax error when elements are still open).
AtEnd(ts, p) == p > Len(ts)

\* a nextStart that counts the failed read at the end of the stream as a
\* token consumed
RECURSIVE nextStartPastEnd(_, _)
nextStartPastEnd(ts, p) ==
    IF AtEnd(ts, p) THEN [p |-> p + 1, se |-> "", e |-> Err("EOF")]
    ELSE IF ts[p][1] = "S" THEN [p |-> p + 1, se |-> ts[p][2], e |-> NoErr]
    ELSE nextStartPastEnd(ts, p + 1)

RECURSIVE nextStart(_, _)
nextStart(ts, p) ==
    IF AtEnd(ts, p) THEN [p |-> p, se |-> "", e |-> Err("EOF")]
    ELSE IF ts[p][1] = "S" THEN [p |-> p + 1, se |-> ts[p][2], e |-> NoErr]
    ELSE nextStart(ts, p + 1)

\* d.Skip(): read to the end element matching an already consumed start.
RECURSIVE Skip(_, _, _)
Skip(ts, p, depth) ==
    IF AtEnd(ts, p) THEN [p |-> p, e |-> Err("EOF")]
    ELSE IF ts[p][1] = "S" THEN Skip(ts, p + 1, depth + 1)
    ELSE IF ts[p][1] = "E"
         THEN IF depth = 0 THEN [p |-> p + 1, e |-> NoErr]
              ELSE Skip(ts, p + 1, depth - 1)
    ELSE Skip(ts, p + 1, depth)

\* p.DecodeElement(&s, &se) into a string: the character data directly
\* inside the element, child elements skipped, up to and including the
\* element's end tag.
RECURSIVE DecodeElement(_, _, _)
DecodeElement(ts, p, acc) ==
    IF AtEnd(ts, p) THEN [p |-> p, s |-> acc, e |-> Err("EOF")]
    ELSE IF ts[p][1] = "E" THEN [p |-> p + 1, s |-> acc, e |-> NoErr]
    ELSE IF ts[p][1] = "C" THEN DecodeElement(ts, p + 1, acc \o ts[p][2])
    ELSE IF ts[p][1] = "S"
         THEN LET k == Skip(ts, p + 1, 0)
              IN  IF k.e # NoErr THEN [p |-> k.p, s |-> acc, e |-> k.e]
                  ELSE DecodeElement(ts, k.p, acc)
    ELSE DecodeElement(ts, p + 1, acc)

----------------------------------------------------------------------------
(* Conversions of the scalar cases *)

B64Chars ==
    <<"A", "B", "C", "D", "E", "F", "G", "H", "I", "J", "K", "L", "M",
      "N", "O", "P", "Q", "R", "S", "T", "U", "V", "W", "X", "Y", "Z",
      "a", "b", "c", "d", "e", "f", "g", "h", "i", "j", "k", "l", "m",
      "n", "o", "p", "q", "r", "s", "t", "u", "v", "w", "x", "y", "z",
      "0", "1", "2", "3", "4", "5", "6", "7", "8", "9", "+", "/">>

IsB64(c) == \E i \in 1..64 : B64Chars[i] = c

B64Val(c) == (CHOOSE i \in 1..64 : B64Chars[i] = c) - 1

\* One quantum of four characters; "=" pads the last one.
B64Quantum(q, last) ==
    LET pad2 == q[3] = "=" /\ q[4] = "="
        pad1 == q[3] # "=" /\ q[4] = "="
        v(i) == IF q[i] = "=" THEN 0 ELSE B64Val(q[i])
        n    == v(1) * 262144 + v(2) * 4096 + v(3) * 64 + v(4)
        all  == <<n \div 65536, (n \div 256) % 256, n % 256>>
        ok   == /\ IsB64(q[1]) /\ IsB64(q[2])
                /\ \/ IsB64(q[3]) /\ IsB64(q[4])
                   \/ last /\ ((pad1 /\ IsB64(q[3])) \/ pad2)
    IN  [ok |-> ok,
         b  |-> IF ~ok THEN <<>>
                ELSE IF pad2 THEN SubSeq(all, 1, 1)
                ELSE IF pad1 THEN SubSeq(all, 1, 2)
                ELSE all]

RECURSIVE B64Decode(_, _)
B64Decode(s, acc) ==
    IF s = <<>> THEN [ok |-> TRUE, b |-> acc]
    ELSE IF Len(s) < 4 THEN [ok |-> FALSE, b |-> <<>>]
    ELSE LET q == B64Quantum(SubSeq(s, 1, 4), Len(s) = 4)
         IN  IF ~q.ok THEN [ok |-> FALSE, b |-> <<>>]
             ELSE B64Decode(SubSeq(s, 5, Len(s)), acc \o q.b)

\* base64.StdEncoding.DecodeString: line breaks are ignored.
DecodeString(s) ==
    B64Decode(SelectSeq(s, LAMBDA c : c \notin {"\r", "\n"}), <<>>)

\* The layouts of time.Parse used by the decoder: "d" stands for a digit,
\* "s" for a sign, anything else for itself.
Layout1 ==
    <<"d", "d", "d", "d", "d", "d", "d", "d", "T",
      "d", "d", ":", "d", "d", ":", "d", "d">>
Layout3 ==
    <<"d", "d", "d", "d", "-", "d", "d", "-", "d", "d", "T",
      "d", "d", ":", "d", "d", ":", "d", "d">>
Layout2 == Layout3 \o <<"s", "d", "d", ":", "d", "d">>

MatchesLayout(s, layout) ==
    /\ Len(s) = Len(layout)
    /\ \A i \in 1..Len(s) :
          CASE layout[i] = "d" -> IsDigit(s[i])
            [] layout[i] = "s" -> s[i] \in {"+", "-"}
            [] OTHER -> s[i] = layout[i]

DaysIn(y, m) ==
    IF m \in {4, 6, 9, 11} THEN 30
    ELSE IF m = 2
         THEN IF y % 4 = 0 /\ (y % 100 # 0 \/ y % 400 = 0) THEN 29 ELSE 28
    ELSE 31

\* time.Parse(layout, s): the digits of s in order are year, month, day,
\* hour, minute, second (and the offset); each is range-checked.
TimeParse(s, layout) ==
    LET ds == SelectSeq(s, IsDigit)
        f(i, j) == DigitsVal(SubSeq(ds, i, j), 0)
        y  == f(1, 4)
        mo == f(5, 6)
        d  == f(7, 8)
        ok == /\ MatchesLayout(s, layout)
              /\ mo \in 1..12 /\ d \in 1..DaysIn(y, mo)
              /\ f(9, 10) < 24 /\ f(11, 12) < 60 /\ f(13, 14) < 60
              /\ (Len(layout) > 19 => f(17, 18) < 60)
        off == IF Len(layout) > 19
               THEN (IF s[20] = "-" THEN -1 ELSE 1) * (f(15, 16) * 60 + f(17, 18))
               ELSE 0
    IN  [ok |-> ok,
         t  |-> IF ok THEN <<y, mo, d, f(9, 10), f(11, 12), f(13, 14), off>>
                ELSE <<>>]

----------------------------------------------------------------------------
(* The decoder *)

FaultCodeKey == <<"f", "a", "u", "l", "t", "C", "o", "d", "e">>
FaultStringKey == <<"f", "a", "u", "l", "t", "S", "t", "r", "i", "n", "g">>

\* m[key], the nil interface when the key is absent
MapGet(m, key) == IF key \in DOMAIN m THEN m[key] ELSE NilV

\* The fault projection: the Struct decoded inside <fault> to a *Fault.
FaultOf(fs) ==
    LET code == MapGet(fs, FaultCodeKey)
        msg  == MapGet(fs, FaultStringKey)
    IN  FaultErr(IF Kind(code) = "string" THEN Atoi(code[2]).v ELSE 0,
                 IF Kind(msg) = "string" THEN msg[2] ELSE <<>>)

\* a slip in the append: the new value put in front
Append2Front(ar, value) == <<value>> \o ar

\* ar = append(ar, value)
Append2(ar, value) == Append(ar, value)

RECURSIVE next(_, _)
RECURSIVE structLoop(_, _, _, _, _)
RECURSIVE arrayLoop(_, _, _)
RECURSIVE paramsLoop(_, _, _)

\* case "struct": the loop, entered with the start element se and the error
\* e of the enclosing scope; the e of the value and of the last nextStart
\* is a new variable of the loop body, so a break on it returns the outer e.
structLoop(ts, p, se, e, st) ==
    IF ~(e = NoErr /\ se = "member") THEN Ret(p, "", StructV(st), e)
    ELSE
    LET r1 == nextStart(ts, p) IN
    IF r1.se # "name" THEN Ret(r1.p, "", NilV, Err("invalid response"))
    ELSE IF r1.e # NoErr THEN Ret(r1.p, "", StructV(st), r1.e)
    ELSE
    LET d == DecodeElement(ts, r1.p, <<>>) IN
    IF d.e # NoErr THEN Ret(d.p, "", NilV, d.e)
    ELSE
    LET r2 == nextStart(ts, d.p) IN
    IF r2.e # NoErr THEN Ret(r2.p, "", StructV(st), r2.e)
    ELSE
    LET v == next(ts, r2.p) IN
    IF r2.se # "value" THEN Ret(v.p, "", NilV, Err("invalid response"))
    ELSE IF v.e # NoErr THEN Ret(v.p, "", StructV(st), r2.e)
    ELSE
    LET st2 == MapPut(st, d.s, v.v)
        r3  == nextStart(ts, v.p)
    IN  IF r3.e # NoErr THEN Ret(r3.p, "", StructV(st2), r2.e)
        ELSE structLoop(ts, r3.p, r3.se, r2.e, st2)

\* case "array": the loop after <data>.
arrayLoop(ts, p, ar) ==
    LET r == nextStart(ts, p)
        v == next(ts, r.p)
    IN  IF v.e # NoErr THEN Ret(v.p, "", ArrayV(ar), NoErr)
        ELSE arrayLoop(ts, v.p, Append2(ar, v.v))

\* case "params"
paramsLoop(ts, p, ar) ==
    LET v == next(ts, p)
    IN  IF v.e # NoErr THEN Ret(v.p, "", ArrayV(ar), NoErr)
        ELSE paramsLoop(ts, v.p, Append2(ar, v.v))

nextString(ts, p) ==
    LET d == DecodeElement(ts, p, <<>>)
    IN  IF d.e # NoErr THEN Ret(d.p, "", NilV, d.e)
        ELSE Ret(d.p, "", StringV(d.s), NoErr)

\* case "boolean" comparing the text as it stands, without TrimSpace
nextBooleanUntrimmed(ts, p) ==
    LET d == DecodeElement(ts, p, <<>>)
    IN  IF d.e # NoErr THEN Ret(d.p, "", NilV, d.e)
        ELSE IF d.s \in {<<"t", "r", "u", "e">>, <<"1">>}
             THEN Ret(d.p, "", BoolV(TRUE), NoErr)
        ELSE IF d.s \in {<<"f", "a", "l", "s", "e">>, <<"0">>}
             THEN Ret(d.p, "", BoolV(FALSE), NoErr)
        ELSE Ret(d.p, "", BoolV(FALSE), Err("invalid boolean value"))

nextBoolean(ts, p) ==
    LET d == DecodeElement(ts, p, <<>>)
        s == TrimSpace(d.s)
    IN  IF d.e # NoErr THEN Ret(d.p, "", NilV, d.e)
        ELSE IF s \in {<<"t", "r", "u", "e">>, <<"1">>}
             THEN Ret(d.p, "", BoolV(TRUE), NoErr)
        ELSE IF s \in {<<"f", "a", "l", "s", "e">>, <<"0">>}
             THEN Ret(d.p, "", BoolV(FALSE), NoErr)
        ELSE Ret(d.p, "", BoolV(FALSE), Err("invalid boolean value"))

nextInt(ts, p) ==
    LET d == DecodeElement(ts, p, <<>>)
        i == Atoi(TrimSpace(d.s))
    IN  IF d.e # NoErr THEN Ret(d.p, "", NilV, d.e)
        ELSE Ret(d.p, "", IntV(i.v), IF i.ok THEN NoErr ELSE Err("Atoi"))

\* strconv.ParseFloat, for the decimal integer texts the model draws.
nextDouble(ts, p) ==
    LET d == DecodeElement(ts, p, <<>>)
        f == Atoi(TrimSpace(d.s))
    IN  IF d.e # NoErr THEN Ret(d.p, "", NilV, d.e)
        ELSE Ret(d.p, "", DoubleV(f.v),
                 IF f.ok THEN NoErr ELSE Err("ParseFloat"))

nextDateTime(ts, p) ==
    LET d  == DecodeElement(ts, p, <<>>)
        t1 == TimeParse(d.s, Layout1)
        t2 == TimeParse(d.s, Layout2)
        t3 == TimeParse(d.s, Layout3)
    IN  IF d.e # NoErr THEN Ret(d.p, "", NilV, d.e)
        ELSE IF t1.ok THEN Ret(d.p, "", TimeV(t1.t), NoErr)
        ELSE IF t2.ok THEN Ret(d.p, "", TimeV(t2.t), NoErr)
        ELSE IF t3.ok THEN Ret(d.p, "", TimeV(t3.t), NoErr)
        ELSE Ret(d.p, "", TimeV(<<>>), Err("time.Parse"))

nextBase64(ts, p) ==
    LET d == DecodeElement(ts, p, <<>>)
        b == DecodeString(d.s)
    IN  IF d.e # NoErr THEN Ret(d.p, "", NilV, d.e)
        ELSE IF ~b.ok THEN Ret(d.p, "", NilV, Err("base64"))
        ELSE Ret(d.p, "", BytesV(b.b), NoErr)

\* a slip in case "fault": the decoded content handed back as the result
nextFaultAsValue(ts, p) ==
    LET v == next(ts, p) IN Ret(v.p, "", v.v, NoErr)

\* case "fault": the error of the inner next is dropped.
nextFault(ts, p) ==
    LET v == next(ts, p)
    IN  IF Kind(v.v) # "Struct"
        THEN Ret(v.p, "", v.v, Err("fault: wanted Struct"))
        ELSE Ret(v.p, "", NilV, FaultOf(v.v[2]))

\* The path after the switch: DecodeElement into a nil interface skips the
\* element.
nextOther(ts, p, se) ==
    LET k == Skip(ts, p, 0)
    IN  IF k.e # NoErr THEN Ret(k.p, "", NilV, k.e)
        ELSE Ret(k.p, se, NilV, NoErr)

next(ts, p) ==
    LET s == nextStart(ts, p) IN
    IF s.e # NoErr THEN Ret(s.p, "", NilV, s.e)
    ELSE CASE s.se = "string" -> nextString(ts, s.p)
           [] s.se = "boolean" -> nextBoolean(ts, s.p)
           [] s.se \in {"int", "i1", "i2", "i4", "i8"} -> nextInt(ts, s.p)
           [] s.se = "double" -> nextDouble(ts, s.p)
           [] s.se = "dateTime.iso8601" -> nextDateTime(ts, s.p)
           [] s.se = "base64" -> nextBase64(ts, s.p)
           [] s.se = "member" -> next(ts, nextStart(ts, s.p).p)
           [] s.se \in {"value", "name", "param"} ->
                next(ts, nextStart(ts, s.p).p)
           [] s.se = "struct" ->
                LET r0 == nextStart(ts, s.p)
                IN  structLoop(ts, r0.p, r0.se, r0.e, EmptyMap)
           [] s.se = "array" -> arrayLoop(ts, nextStart(ts, s.p).p, <<>>)
           [] s.se = "nil" -> Ret(s.p, "", NilV, NoErr)
           [] s.se = "params" -> paramsLoop(ts, s.p, <<>>)
           [] s.se = "fault" -> nextFault(ts, s.p)
           [] OTHER -> nextOther(ts, s.p, s.se)

\* Unmarshal: [name, v, e, p]; v is the Array, or <<"nil">> for a nil Array;
\* p is where the decoder stands in r when Unmarshal returns.
Unmarshal(ts) ==
    LET s1 == nextStart(ts, 1) IN
    IF s1.e # NoErr THEN [name |-> <<>>, v |-> NilV, e |-> s1.e, p |-> s1.p]
    ELSE
    LET isCall == s1.se # "methodResponse"
        s2 == nextStart(ts, s1.p)
        d  == DecodeElement(ts, s2.p, <<>>)
        fin(name, p) ==
            LET r == next(ts, p)
            IN  IF Kind(r.v) = "Array"
                THEN [name |-> name, v |-> r.v, e |-> r.e, p |-> r.p]
                ELSE IF r.e = NoErr
                     THEN [name |-> name, v |-> NilV, e |-> Err("wanted Array"),
                           p |-> r.p]
                ELSE [name |-> name, v |-> NilV, e |-> r.e, p |-> r.p]
    IN  IF ~isCall THEN fin(<<>>, s1.p)
        ELSE IF s1.se # "methodCall"
             THEN [name |-> <<>>, v |-> NilV,
                   e |-> Err("invalid response: missing methodResponse"),
                   p |-> s1.p]
        ELSE IF s2.e # NoErr
             THEN [name |-> <<>>, v |-> NilV, e |-> s2.e, p |-> s2.p]
        ELSE IF s2.se # "methodName"
             THEN [name |-> <<>>, v |-> NilV,
                   e |-> Err("invalid response: missing methodName"), p |-> s2.p]
        ELSE IF d.e # NoErr THEN [name |-> <<>>, v |-> NilV, e |-> d.e, p |-> d.p]
        ELSE fin(d.s, d.p)

----------------------------------------------------------------------------
(* Documents: an XML tree is <<"el", tag, children>> or <<"tx", text>>.    *)

El(tag, kids) == <<"el", tag, kids>>
Tx(text) == <<"tx", text>>

\* The tokens xml.Decoder yields for a tree: no token for empty text.
RECURSIVE Tokens(_)
RECURSIVE TokensOf(_)
Tokens(t) ==
    IF t[1] = "tx"
    THEN IF t[2] = <<>> THEN <<>> ELSE << <<"C", t[2]>> >>
    ELSE << <<"S", t[2]>> >> \o TokensOf(t[3]) \o << <<"E", t[2]>> >>
TokensOf(kids) ==
    IF kids = <<>> THEN <<>> ELSE Tokens(Head(kids)) \o TokensOf(Tail(kids))

Scalar(tag, text) == El(tag, <<Tx(text)>>)
Value(x) == El("value", <<x>>)
Member(name, x) == El("member", <<El("name", <<Tx(name)>>), Value(x)>>)
ArrayEl(items) ==
    El("array", <<El("data", [i \in 1..Len(items) |-> Value(items[i])])>>)
StructEl(ms) ==
    El("struct", [i \in 1..Len(ms) |-> Member(ms[i][1], ms[i][2])])
Response(x) ==
    El("methodResponse", <<El("params", <<El("param", <<Value(x)>>)>>)>>)

----------------------------------------------------------------------------
(* The encoder.  Its output is the markup written to w, as a sequence of   *)
(* <<"P">> (the prolog), <<"S", tag>>, <<"E", tag>> and <<"C", bytes>>,    *)
(* where the bytes of character data are escaped text.                     *)

EscapedChars == {"&", "<", ">", "'", "\"", "\t", "\n", "\r"}

\* xml.EscapeText, one character
EscapeChar(c) ==
    CASE c = "&"  -> <<"&", "a", "m", "p", ";">>
      [] c = "<"  -> <<"&", "l", "t", ";">>
      [] c = ">"  -> <<"&", "g", "t", ";">>
      [] c = "'"  -> <<"&", "#", "3", "9", ";">>
      [] c = "\"" -> <<"&", "#", "3", "4", ";">>
      [] c = "\t" -> <<"&", "#", "x", "9", ";">>
      [] c = "\n" -> <<"&", "#", "x", "A", ";">>
      [] c = "\r" -> <<"&", "#", "x", "D", ";">>
      [] OTHER    -> <<c>>

RECURSIVE EscapeText(_)
EscapeText(s) ==
    IF s = <<>> THEN <<>> ELSE EscapeChar(Head(s)) \o EscapeText(Tail(s))

\* The tokenizer's reading of character data: entities are replaced by
\* the characters they stand for; an unknown or unterminated entity is kept.
RECURSIVE UnescapeText(_)
UnescapeText(s) ==
    IF s = <<>> THEN <<>>
    ELSE IF Head(s) # "&" THEN <<Head(s)>> \o UnescapeText(Tail(s))
    ELSE LET ends == {j \in 1..Len(s) : s[j] = ";"}
             j    == CHOOSE x \in ends : \A y \in ends : x <= y
             cs   == IF ends = {} THEN {}
                     ELSE {c \in EscapedChars : EscapeChar(c) = SubSeq(s, 1, j)}
         IN  IF cs = {} THEN <<Head(s)>> \o UnescapeText(Tail(s))
             ELSE <<CHOOSE c \in cs : TRUE>> \o UnescapeText(SubSeq(s, j + 1, Len(s)))

\* xml.Decoder over the written bytes: the prolog is a processing
\* instruction, empty character data yields no token.
RECURSIVE Tokenize(_)
Tokenize(out) ==
    IF out = <<>> THEN <<>>
    ELSE LET h == Head(out)
         IN  (IF h[1] = "C"
              THEN IF h[2] = <<>> THEN <<>> ELSE << <<"C", UnescapeText(h[2])>> >>
              ELSE <<h>>) \o Tokenize(Tail(out))

Open(tag) == << <<"S", tag>> >>
Close(tag) == << <<"E", tag>> >>
Chars(s) == << <<"C", s>> >>

\* base64.NewEncoder(base64.StdEncoding, w).Write(b), the encoder never
\* closed: only whole groups of three bytes are written.
RECURSIVE B64Write(_)
B64Write(b) ==
    IF Len(b) < 3 THEN <<>>
    ELSE LET n == b[1] * 65536 + b[2] * 256 + b[3]
         IN  <<B64Chars[(n \div 262144) + 1], B64Chars[((n \div 4096) % 64) + 1],
               B64Chars[((n \div 64) % 64) + 1], B64Chars[(n % 64) + 1]>>
             \o B64Write(SubSeq(b, 4, Len(b)))

UnsupportedType == Err("unsupported type")

\* r.MapKeys(): the keys in the order the runtime yields them, here the
\* order of the keys in ord.
MapKeys(m, ord) == SelectSeq(ord, LAMBDA k : k \in DOMAIN m)

\* fmt's %v of a bool
FormatBool(b) == IF b THEN <<"t", "r", "u", "e">> ELSE <<"f", "a", "l", "s", "e">>

RECURSIVE writeXML(_, _, _)
RECURSIVE writeElems(_, _, _)
RECURSIVE writeMembers(_, _, _, _)
RECURSIVE writeFields(_, _)

\* case reflect.Array: the elements from the first on
writeElems(items, typ, ord) ==
    IF items = <<>> THEN [out |-> <<>>, e |-> NoErr]
    ELSE LET x == writeXML(Head(items), typ, ord)
             w == Open("value") \o x.out \o Close("value")
         IN  IF x.e # NoErr THEN [out |-> w, e |-> x.e]
             ELSE LET r == writeElems(Tail(items), typ, ord)
                  IN  [out |-> w \o r.out, e |-> r.e]

\* case reflect.Map: the members for the keys, in their order
writeMembers(m, keys, typ, ord) ==
    IF keys = <<>> THEN [out |-> <<>>, e |-> NoErr]
    ELSE LET k == Head(keys)
             x == writeXML(m[k], typ, ord)
             w == Open("member") \o Open("name") \o Chars(EscapeText(k))
                  \o Close("name") \o Open("value") \o x.out
         IN  IF x.e # NoErr THEN [out |-> w, e |-> x.e]
             ELSE LET r == writeMembers(m, Tail(keys), typ, ord)
                  IN  [out |-> w \o Close("value") \o Close("member") \o r.out,
                       e |-> r.e]

\* case reflect.Struct: the fields <<name, value>>, always typed
writeFields(fs, ord) ==
    IF fs = <<>> THEN [out |-> <<>>, e |-> NoErr]
    ELSE LET x == writeXML(Head(fs)[2], TRUE, ord)
             w == Open("member") \o Open("name") \o Chars(Head(fs)[1])
                  \o Close("name") \o Open("value") \o x.out
         IN  IF x.e # NoErr THEN [out |-> w, e |-> x.e]
             ELSE LET r == writeFields(Tail(fs), ord)
                  IN  [out |-> w \o Close("value") \o Close("member") \o r.out,
                       e |-> r.e]

\* writeXML(w, v, typ): what it writes and the error it returns.  Go values
\* met only by the encoder: <<"goarray", elems>> (a fixed-size array),
\* <<"gostruct", fields>>, <<"func">>, <<"chan">>, <<"ptr">>,
\* <<"complex">>, <<"uintptr">>.
writeXML(v, typ, ord) ==
    CASE Kind(v) = "nil" -> [out |-> Open("nil") \o Close("nil"), e |-> NoErr]
      [] Kind(v) = "bytes" ->
           [out |-> Open("base64") \o Chars(B64Write(v[2])) \o Close("base64"),
            e |-> NoErr]
      [] Kind(v) = "bool" ->
           [out |-> Open("boolean") \o Chars(FormatBool(v[2])) \o Close("boolean"),
            e |-> NoErr]
      [] Kind(v) = "int" ->
           [out |-> IF typ THEN Open("int") \o Chars(FormatInt(v[2])) \o Close("int")
                    ELSE Chars(FormatInt(v[2])),
            e |-> NoErr]
      [] Kind(v) = "double" ->
           [out |-> IF typ
                    THEN Open("double") \o Chars(FormatInt(v[2])) \o Close("double")
                    ELSE Chars(FormatInt(v[2])),
            e |-> NoErr]
      [] Kind(v) = "goarray" ->
           LET r == writeElems(v[2], typ, ord)
           IN  IF r.e # NoErr
               THEN [out |-> Open("array") \o Open("data") \o r.out, e |-> r.e]
               ELSE [out |-> Open("array") \o Open("data") \o r.out
                             \o Close("data") \o Close("array"),
                     e |-> NoErr]
      [] Kind(v) = "Struct" ->
           LET r == writeMembers(v[2], MapKeys(v[2], ord), typ, ord)
           IN  IF r.e # NoErr THEN [out |-> Open("struct") \o r.out, e |-> r.e]
               ELSE [out |-> Open("struct") \o r.out \o Close("struct"),
                     e |-> NoErr]
      [] Kind(v) = "Array" -> [out |-> <<>>, e |-> UnsupportedType]
      [] Kind(v) = "string" ->
           [out |-> IF typ
                    THEN Open("string") \o Chars(EscapeText(v[2])) \o Close("string")
                    ELSE Chars(EscapeText(v[2])),
            e |-> NoErr]
      [] Kind(v) = "gostruct" ->
           LET r == writeFields(v[2], ord)
           IN  IF r.e # NoErr THEN [out |-> Open("struct") \o r.out, e |-> r.e]
               ELSE [out |-> Open("struct") \o r.out \o Close("struct"),
                     e |-> NoErr]
      [] Kind(v) \in {"func", "chan", "ptr", "complex", "uintptr"} ->
           [out |-> <<>>, e |-> UnsupportedType]
      [] OTHER -> [out |-> <<>>, e |-> NoErr]

\* the params loop ending after its first argument
writeParamsFirst(args, ord) ==
    IF args = <<>> THEN [out |-> <<>>, e |-> NoErr]
    ELSE LET x == writeXML(Head(args), TRUE, ord)
         IN  [out |-> Open("param") \o Open("value") \o x.out
                        \o Close("value") \o Close("param"),
              e |-> x.e]

RECURSIVE writeParams(_, _)
writeParams(args, ord) ==
    IF args = <<>> THEN [out |-> <<>>, e |-> NoErr]
    ELSE LET x == writeXML(Head(args), TRUE, ord)
             w == Open("param") \o Open("value") \o x.out
         IN  IF x.e # NoErr THEN [out |-> w, e |-> x.e]
             ELSE LET r == writeParams(Tail(args), ord)
                  IN  [out |-> w \o Close("value") \o Close("param") \o r.out,
                       e |-> r.e]

\* Marshal(w, name, args...)
Marshal(name, args, ord) ==
    LET root == IF name = <<>> THEN "methodResponse" ELSE "methodCall"
        head == << <<"P">> >> \o Open(root)
                \o (IF name = <<>> THEN <<>>
                    ELSE Open("methodName") \o Chars(EscapeText(name))
                         \o Close("methodName"))
                \o Open("params")
        r    == writeParams(args, ord)
    IN  IF r.e # NoErr THEN [out |-> head \o r.out, e |-> r.e]
        ELSE [out |-> head \o r.out \o Close("params") \o Close(root), e |-> NoErr]

----------------------------------------------------------------------------
(* What a value element denotes in the XML-RPC grammar: the reference the  *)
(* properties compare the decoder with.  It is computed on the tree, with  *)
(* the end tags the decoder never looks at.                                *)

ScalarTags ==
    {"string", "boolean", "int", "i1", "i2", "i4", "i8", "double",
     "dateTime.iso8601", "base64", "nil"}

Tag(x) == x[2]
TextOf(x) == IF x[3] = <<>> THEN <<>> ELSE x[3][1][2]
IsScalar(x) == Tag(x) \in ScalarTags
IsArray(x) == Tag(x) = "array"
IsStruct(x) == Tag(x) = "struct"
\* the elements inside the <value> entries of an array
Entries(x) == [i \in 1..Len(x[3][1][3]) |-> x[3][1][3][i][3][1]]
\* the <<name, element>> pairs of the members of a struct
Members(x) == [i \in 1..Len(x[3]) |-> <<x[3][i][3][1][3][1][2], x[3][i][3][2][3][1]>>]

ScalarOk(x) ==
    CASE Tag(x) \in {"int", "i1", "i2", "i4", "i8", "double"} ->
           Atoi(TrimSpace(TextOf(x))).ok
      [] Tag(x) = "boolean" ->
           TrimSpace(TextOf(x)) \in
             {<<"t", "r", "u", "e">>, <<"1">>, <<"f", "a", "l", "s", "e">>, <<"0">>}
      [] Tag(x) = "base64" -> DecodeString(TextOf(x)).ok
      [] Tag(x) = "dateTime.iso8601" ->
           \E l \in {Layout1, Layout2, Layout3} : TimeParse(TextOf(x), l).ok
      [] OTHER -> TRUE

ScalarDen(x) ==
    CASE Tag(x) \in {"int", "i1", "i2", "i4", "i8"} ->
           IntV(Atoi(TrimSpace(TextOf(x))).v)
      [] Tag(x) = "double" -> DoubleV(Atoi(TrimSpace(TextOf(x))).v)
      [] Tag(x) = "boolean" ->
           BoolV(TrimSpace(TextOf(x)) \in {<<"t", "r", "u", "e">>, <<"1">>})
      [] Tag(x) = "string" -> StringV(TextOf(x))
      [] Tag(x) = "base64" -> BytesV(DecodeString(TextOf(x)).b)
      [] Tag(x) = "dateTime.iso8601" ->
           TimeV((CHOOSE r \in {TimeParse(TextOf(x), l) :
                                   l \in {Layout1, Layout2, Layout3}} : r.ok).t)
      [] OTHER -> NilV

RECURSIVE Den(_)
RECURSIVE DenMembers(_, _)
Den(x) ==
    IF IsArray(x) THEN ArrayV([i \in 1..Len(Entries(x)) |-> Den(Entries(x)[i])])
    ELSE IF IsStruct(x) THEN StructV(DenMembers(Members(x), EmptyMap))
    ELSE ScalarDen(x)
DenMembers(ms, m) ==
    IF ms = <<>> THEN m
    ELSE DenMembers(Tail(ms), MapPut(m, Head(ms)[1], Den(Head(ms)[2])))

\* a member element with its name and its value, in that order
IsMember(m) ==
    /\ m[1] = "el" /\ m[2] = "member" /\ Len(m[3]) = 2
    /\ m[3][1][1] = "el" /\ m[3][1][2] = "name"
    /\ m[3][2][1] = "el" /\ m[3][2][2] = "value"

\* every member has its name and value, every element is of the grammar,
\* and every scalar text anywhere in the value parses
RECURSIVE WellFormed(_)
WellFormed(x) ==
    IF IsArray(x) THEN \A i \in 1..Len(Entries(x)) : WellFormed(Entries(x)[i])
    ELSE IF IsStruct(x)
         THEN /\ \A i \in 1..Len(x[3]) : IsMember(x[3][i])
              /\ \A i \in 1..Len(Members(x)) : WellFormed(Members(x)[i][2])
    ELSE IsScalar(x) /\ ScalarOk(x)

----------------------------------------------------------------------------
(* The inputs *)

MaxLen == 3      \* entries of an array, members of a struct
MaxDepth == 3    \* nesting of arrays and structs

SeqsUpTo(S, lo, hi) == UNION {[1..n -> S] : n \in lo..hi}
Rep(x, n) == [i \in 1..n |-> x]

NameA == <<"a">>
NameB == <<"b">>
Test1 == <<"t", "e", "s", "t", "1">>
Test2 == <<"t", "e", "s", "t", "2">>
MsgText == <<"T", "o", "o", " ", "m", "a", "n", "y", ".">>

Int2 == Scalar("int", <<"2">>)
Int4 == Scalar("int", <<"4">>)
StrA == Scalar("string", <<"a">>)
StrB == Scalar("string", <<"b">>)
NilEl == El("nil", <<>>)
\* the structs of TestParseStructArray and TestParseMixedArray
S1 == StructEl(<< <<Test1, StrA>>, <<Test2, Int2>> >>)
S2 == StructEl(<< <<Test1, StrB>>, <<Test2, Int2>> >>)

ValidScalars ==
    {Int4, Scalar("i4", <<" ", "1", "2", "\n">>), Scalar("boolean", <<"1">>),
     Scalar("string", <<"a", " ">>), NilEl,
     Scalar("base64", <<"A", "Q", "I", "D">>)}

BadScalars ==
    {Scalar("int", <<"x">>), Scalar("boolean", <<"2">>),
     Scalar("double", <<"1", "x">>), Scalar("base64", <<"A">>),
     Scalar("dateTime.iso8601", <<"x">>)}

OtherScalars ==
    {Scalar("double", <<"0">>), Scalar("string", <<>>),
     Scalar("boolean", <<"f", "a", "l", "s", "e">>), Scalar("i8", <<"-", "7">>),
     Scalar("dateTime.iso8601",
            <<"2", "0", "1", "9", "0", "4", "0", "3", "T",
              "1", "7", ":", "0", "6", ":", "3", "4">>)}

ScalarArrays == {ArrayEl(s) : s \in SeqsUpTo(ValidScalars, 0, MaxLen)}

MixedArrays == {ArrayEl(s) : s \in SeqsUpTo({S1, S2, Int2, Int4}, 1, MaxLen)}

\* the array of TestParseMixedArray
TestMixed == ArrayEl(<<S1, Int2, S2, Int4>>)

\* aggregates nested to depth d around a scalar or a struct
RECURSIVE Nest(_)
Nest(d) ==
    IF d = 0 THEN {Int2, StrA, S1}
    ELSE LET P == Nest(d - 1)
         IN  P \cup {ArrayEl(<<x>>) : x \in P}
               \cup {ArrayEl(<<x, Int4>>) : x \in P}
               \cup {StructEl(<< <<NameA, x>> >>) : x \in P}
               \cup {StructEl(<< <<NameA, x>>, <<NameB, Int4>> >>) : x \in P}

\* arrays of like branches, as in TestParseNestedArray
Branches == {ArrayEl(Rep(x, n)) : x \in Nest(MaxDepth - 1), n \in 2..MaxLen}

\* structs of scalars, structs and arrays, names repeated or not
Structs ==
    {StructEl(ms) :
       ms \in SeqsUpTo({NameA, NameB}
                         \X {Int2, StructEl(<< <<NameA, Int4>> >>), ArrayEl(<<Int4>>)},
                       0, MaxLen)}

\* aggregates holding a value that does not parse
Broken ==
    {ArrayEl(s) : s \in SeqsUpTo({Int2} \cup BadScalars, 1, MaxLen)}
      \cup {StructEl(<< <<NameA, x>>, <<NameB, y>> >>) :
              x \in {Int2} \cup BadScalars, y \in {Int2} \cup BadScalars}

\* boolean elements: the four spellings, padded ones, and others
BoolTexts ==
    {<<"1">>, <<"0">>, <<"t", "r", "u", "e">>, <<"f", "a", "l", "s", "e">>,
     <<" ", "1", "\n">>, <<"\t", "0">>, <<"\n", "t", "r", "u", "e", " ">>,
     <<"f", "a", "l", "s", "e", "\r", "\n">>,
     <<>>, <<" ">>, <<"2">>, <<"-", "1">>, <<"0", "1">>, <<"1", " ", "0">>,
     <<"T", "R", "U", "E">>, <<"T", "r", "u", "e">>, <<"F", "a", "l", "s", "e">>,
     <<"t">>, <<"y", "e", "s">>, <<"t", "r", "u", "e", "1">>}
BoolScalars == {Scalar("boolean", t) : t \in BoolTexts}

\* elements outside the vocabulary of next
UnknownEls ==
    {Scalar("float", <<"1">>), El("object", <<Int2>>), El("ex.nil", <<>>)}
UnknownValues ==
    UnknownEls \cup {ArrayEl(<<u, Int4>>) : u \in UnknownEls}
      \cup {ArrayEl(<<Int2, u>>) : u \in UnknownEls}
      \cup {StructEl(<< <<NameA, u>>, <<NameB, Int4>> >>) : u \in UnknownEls}

\* members that lack their name, their value, or both, or have them reversed
NoName(x) == El("member", <<Value(x)>>)
NoValue(name) == El("member", <<El("name", <<Tx(name)>>)>>)
Reversed(name, x) == El("member", <<Value(x), El("name", <<Tx(name)>>)>>)
BadMembers ==
    {NoName(Int2), NoValue(NameA), El("member", <<>>), Reversed(NameA, Int2)}
\* structs with such a member, alone, first or last
BadStructs ==
    {El("struct", <<m>>) : m \in BadMembers}
      \cup {El("struct", <<m, Member(NameB, Int4)>>) : m \in BadMembers}
      \cup {El("struct", <<Member(NameB, Int4), m>>) : m \in BadMembers}
\* such a struct as the param value, as an array entry before and after
\* other entries, and as the member of a struct before another member
BadStructValues ==
    BadStructs \cup {ArrayEl(<<x, Int4>>) : x \in BadStructs}
      \cup {ArrayEl(<<Int2, x, StrA>>) : x \in BadStructs}
      \cup {StructEl(<< <<NameA, x>>, <<NameB, Int4>> >>) : x \in BadStructs}

ParamValues ==
    ValidScalars \cup BadScalars \cup OtherScalars \cup ScalarArrays
      \cup MixedArrays \cup {TestMixed} \cup Nest(MaxDepth) \cup Branches
      \cup Structs \cup Broken \cup BoolScalars \cup UnknownValues
      \cup BadStructValues

\* what a server puts inside <fault>
FaultCodes ==
    {Scalar("string", <<"4">>), Scalar("string", <<"1", "2">>),
     Scalar("string", <<"x">>), Scalar("string", <<" ", "4">>), Int4,
     Scalar("i4", <<"1", "2">>)}
FaultStructs ==
    {StructEl(<< <<FaultCodeKey, c>>, <<FaultStringKey, Scalar("string", MsgText)>> >>) :
       c \in FaultCodes}
      \cup {StructEl(<< <<FaultStringKey, Scalar("string", MsgText)>>, <<FaultCodeKey, c>> >>) :
              c \in FaultCodes}
      \cup {StructEl(<< <<FaultCodeKey, c>> >>) : c \in FaultCodes}
      \cup {StructEl(<< <<FaultStringKey, m>> >>) : m \in {Scalar("string", MsgText), Int4}}
      \cup {StructEl(<<>>)}
FaultPayloads == FaultStructs \cup Nest(1) \cup {ArrayEl(<<>>), NilEl}

Root(kids) == El("methodResponse", kids)
FaultDocs ==
    {Root(<<El("fault", <<Value(x)>>)>>) : x \in FaultPayloads}
      \cup {Root(<<El("fault", <<x>>)>>) : x \in FaultPayloads}
      \cup {Root(<<El("fault", <<>>)>>)}

\* responses with a wrapper left out
BareValues == Nest(1) \cup {ArrayEl(<<>>), ArrayEl(<<Int2, Int4>>)}
NoParamDocs == {Root(<<El("params", <<Value(x)>>)>>) : x \in BareValues}
NoParamsDocs == {Root(<<El("param", <<Value(x)>>)>>) : x \in BareValues}
NoWrapperDocs == {Root(<<Value(x)>>) : x \in BareValues}

\* responses with two params
TwoParams(x, y) ==
    Root(<<El("params", <<El("param", <<Value(x)>>), El("param", <<Value(y)>>)>>)>>)
TwoParamDocs ==
    {TwoParams(x, Int4) : x \in BadStructs \cup {Int2, S1, NilEl, ArrayEl(<<Int2>>)}}

Docs ==
    {Response(x) : x \in ParamValues} \cup FaultDocs \cup NoParamDocs
      \cup NoParamsDocs \cup NoWrapperDocs \cup TwoParamDocs

\* streams that stop early
CutDocs ==
    {Response(x) : x \in {Int2, ArrayEl(<<Int2, Int4>>), S1, ArrayEl(<<S1, Int2>>)}}
      \cup {Root(<<El("fault", <<Value(x)>>)>>) :
              x \in {StructEl(<< <<FaultCodeKey, Int4>> >>)}}
      \cup {Root(<<El("fault", <<x>>)>>) :
              x \in {StructEl(<< <<FaultCodeKey, Scalar("string", <<"4">>)>> >>)}}

\* values handed to the encoder
RECURSIVE NestV(_)
NestV(d) ==
    IF d = 0 THEN {IntV(7), StringV(<<"a">>), NilV}
    ELSE LET P == NestV(d - 1)
         IN  P \cup {ArrayV(<<x>>) : x \in P}
               \cup {StructV(NameA :> x) : x \in P}
               \cup {StructV(NameA :> x @@ NameB :> IntV(7)) : x \in P}

LeafValues ==
    {NilV, BoolV(TRUE), BoolV(FALSE), IntV(0), IntV(-12), IntV(305),
     StringV(<<>>), StringV(<<"a", "<", "&", "b">>), StringV(<<" ", "x", " ">>),
     BytesV(<<>>), BytesV(<<1, 2, 3>>), BytesV(<<255>>), BytesV(<<0, 16, 131, 9>>),
     StructV(EmptyMap), ArrayV(<<>>), ArrayV(<<IntV(1), IntV(2)>>)}

Values == LeafValues \cup NestV(MaxDepth)

MethodNames == {<<>>, <<"A", "d", "d">>}
Orders == {<<NameA, NameB>>, <<NameB, NameA>>}

----------------------------------------------------------------------------
(* The state machine: a response arrives, or the encoder produces one, and *)
(* Unmarshal decodes it.                                                   *)

NoRes == [name |-> <<>>, v |-> NilV, e |-> NoErr, p |-> 1]
NoSub == [at |-> 0, r |-> Ret(0, "", NilV, NoErr)]
NoRet == [v |-> NilV, e |-> NoErr]

NotPosted == <<"none", "none">>

NoAgain == [ord |-> <<>>, out |-> <<>>, e |-> NoErr]
NoClient == [HttpClient |-> "none", url |-> "none"]

\* no second encoding, no shared Client
NoMore ==
    /\ again = NoAgain
    /\ Client = NoClient
    /\ calls = <<>>

\* nothing of a call has happened
NoCall ==
    /\ hc = "http.DefaultClient"
    /\ via = NotPosted
    /\ status = 0
    /\ open = FALSE
    /\ rd = 0
    /\ ret = NoRet

Init ==
    /\ pc = "idle"
    /\ src = <<"none">>
    /\ body = <<>>
    /\ merr = NoErr
    /\ res = NoRes
    /\ wrote = <<>>
    /\ sub = NoSub
    /\ NoCall
    /\ NoMore

\* r.Body of a response: the document after its prolog
Receive ==
    /\ pc = "idle"
    /\ \E d \in Docs :
         /\ src' = <<"doc", d>>
         /\ body' = << <<"P">> >> \o Tokens(d)
    /\ pc' = "received"
    /\ UNCHANGED <<merr, res, wrote, sub>>
    /\ UNCHANGED callVars
    /\ UNCHANGED <<again, Client, calls>>

\* r.Body of a response that ends early
ReceiveCut ==
    /\ pc = "idle"
    /\ \E d \in CutDocs :
         \E n \in 0..(Len(Tokens(d)) - 1) :
           /\ src' = <<"cut", d, n>>
           /\ body' = SubSeq(Tokens(d), 1, n)
    /\ pc' = "received"
    /\ UNCHANGED <<merr, res, wrote, sub>>
    /\ UNCHANGED callVars
    /\ UNCHANGED <<again, Client, calls>>

\* Marshal(w, name, v), its output then read back through an xml.Decoder
Encode ==
    /\ pc = "idle"
    /\ \E name \in MethodNames, v \in Values, ord \in Orders :
         LET m == Marshal(name, <<v>>, ord)
         IN  /\ src' = <<"val", name, v, ord>>
             /\ merr' = m.e
             /\ wrote' = m.out
             /\ body' = Tokenize(m.out)
             /\ pc' = IF m.e = NoErr THEN "received" ELSE "failed"
    /\ UNCHANGED <<res, sub>>
    /\ UNCHANGED callVars
    /\ UNCHANGED <<again, Client, calls>>

\* _, v, e = Unmarshal(r.Body)
Decode ==
    /\ pc = "received"
    /\ res' = Unmarshal(body)
    /\ pc' = "done"
    /\ UNCHANGED <<src, body, merr, wrote, sub>>
    /\ UNCHANGED callVars
    /\ UNCHANGED <<again, Client, calls>>

\* next(p) with the decoder standing behind a <value> start tag, as after
\* the nextStart(p) of case "param" and of the array loop, and as in the
\* struct loop.
DecodeValue ==
    /\ pc = "received"
    /\ \E k \in 1..Len(body) :
         /\ body[k][1] = "S"
         /\ body[k][2] = "value"
         /\ sub' = [at |-> k + 1, r |-> next(body, k + 1)]
    /\ pc' = "value"
    /\ UNCHANGED <<src, body, merr, res, wrote>>
    /\ UNCHANGED callVars
    /\ UNCHANGED <<again, Client, calls>>

\* Marshal(w, name, v) run a second time on the value of Encode; the order
\* in which r.MapKeys() hands out the keys of a map is that run's own
EncodeAgain ==
    /\ pc \in {"received", "failed"}
    /\ src[1] = "val"
    /\ \E ord \in Orders :
         LET m == Marshal(src[2], <<src[3]>>, ord)
         IN  again' = [ord |-> ord, out |-> m.out, e |-> m.e]
    /\ pc' = "again"
    /\ UNCHANGED <<src, body, merr, res, wrote, sub>>
    /\ UNCHANGED callVars
    /\ UNCHANGED concVars

\* next(p) with the decoder standing anywhere in the stream, its end
\* included: every position at which a loop iteration or a recursive call
\* of next can start.  The streams are the truncated ones and the
\* encoder's output; the documents of Docs are read from their start by
\* Decode and from each of their values by DecodeValue.
DecodeFrom ==
    /\ pc = "received"
    /\ src[1] \in {"cut", "val"}
    /\ \E k \in 1..(Len(body) + 1) :
         sub' = [at |-> k, r |-> next(body, k)]
    /\ pc' = "from"
    /\ UNCHANGED <<src, body, merr, res, wrote>>
    /\ UNCHANGED callVars
    /\ UNCHANGED <<again, Client, calls>>

Next ==
    \/ Receive \/ ReceiveCut \/ Encode \/ Decode \/ DecodeValue \/ EncodeAgain
    \/ DecodeFrom

Spec == Init /\ [][Next]_vars

----------------------------------------------------------------------------
(* Reading the state *)

Done == pc = "done"

IsRoot(d) == d[1] = "el" /\ d[2] = "methodResponse"
Only(d, tag) == Len(d[3]) = 1 /\ d[3][1][1] = "el" /\ d[3][1][2] = tag

\* methodResponse > params > param > value > x, each the only child
IsResponse(d) ==
    /\ IsRoot(d) /\ Only(d, "params") /\ Only(d[3][1], "param")
    /\ Only(d[3][1][3][1], "value") /\ Len(d[3][1][3][1][3][1][3]) = 1
ParamValue(d) == d[3][1][3][1][3][1][3][1]

\* methodResponse > fault, the only child
IsFaultDoc(d) == IsRoot(d) /\ Only(d, "fault")
FaultKids(d) == d[3][1][3]

\* the whole document d was received
Got(d) == src = <<"doc", d>>
GotDoc == src[1] = "doc"
\* the response whose single param value is the element x was received
GotResponse == GotDoc /\ IsResponse(src[2])

\* the decoded params hold one value
OneResult == Kind(res.v) = "Array" /\ Len(res.v[2]) = 1
Result == res.v[2][1]

----------------------------------------------------------------------------
(* C1: a response stream whose root methodResponse has the fault child     *)
(* (the whole document, or a prefix of it that reaches the fault start     *)
(* tag) makes Unmarshal return a non-nil error, never a nil error with     *)
(* the fault content as the result.                                        *)

FaultStream ==
    \/ GotDoc /\ IsFaultDoc(src[2])
    \/ src[1] = "cut" /\ IsFaultDoc(src[2]) /\ src[3] >= 2

FaultDoc4 ==
    Root(<<El("fault", <<Value(StructEl(
        << <<FaultCodeKey, Scalar("string", <<"4">>)>>,
           <<FaultStringKey, Scalar("string", MsgText)>> >>))>>)>>)

WireFault(c, m) ==
    Root(<<El("fault", <<Value(StructEl(
        << <<FaultCodeKey, Scalar("string", c)>>,
           <<FaultStringKey, Scalar("string", m)>> >>))>>)>>)

C2_FaultCarriesCodeAndMessage ==
    \A c \in {<<"4">>, <<"1", "2">>} :
        (Done /\ Got(WireFault(c, MsgText))) => res.e = FaultErr(Atoi(c).v, MsgText)

(* C3: when the single param value is an array with struct entries (all   *)
(* structs, or structs among scalars), the decoded array has the entries   *)
(* of the wire array, in order, each with its own kind and members.        *)

IsFlat(x) == IsScalar(x) \/ (IsStruct(x) /\ \A i \in 1..Len(Members(x)) : IsScalar(Members(x)[i][2]))

StructArray(x) ==
    /\ IsArray(x) /\ WellFormed(x)
    /\ \A i \in 1..Len(Entries(x)) : IsFlat(Entries(x)[i])
    /\ \E i \in 1..Len(Entries(x)) : IsStruct(Entries(x)[i])

C3_StructArrayEntries ==
    (Done /\ GotResponse /\ StructArray(ParamValue(src[2]))) =>
        /\ res.e = NoErr /\ OneResult
        /\ Kind(Result) = "Array"
        /\ Len(Result[2]) = Len(Entries(ParamValue(src[2])))
        /\ Result = Den(ParamValue(src[2]))

(* C4: arrays nested in arrays, structs in the innermost: every array at   *)
(* every level decodes to the number of entries it has on the wire.        *)

NestedArrays(x) ==
    /\ IsArray(x) /\ WellFormed(x)
    /\ \E i \in 1..Len(Entries(x)) : IsArray(Entries(x)[i])

\* v has, at every level of arrays, the lengths of x
RECURSIVE SameLengths(_, _)
SameLengths(v, x) ==
    IF IsArray(x)
    THEN /\ Kind(v) = "Array"
         /\ Len(v[2]) = Len(Entries(x))
         /\ \A i \in 1..Len(Entries(x)) : SameLengths(v[2][i], Entries(x)[i])
    ELSE TRUE

C4_NestedArrayLengths ==
    (Done /\ GotResponse /\ NestedArrays(ParamValue(src[2]))) =>
        /\ res.e = NoErr /\ OneResult
        /\ SameLengths(Result, ParamValue(src[2]))

(* C5: when the single param value is an array of n >= 1 value-wrapped     *)
(* scalar entries, the decoded array has length n and its i-th element is  *)
(* the decoding of the i-th wire entry.                                    *)

ScalarArray(x) ==
    /\ IsArray(x) /\ Len(Entries(x)) >= 1
    /\ \A i \in 1..Len(Entries(x)) : IsScalar(Entries(x)[i]) /\ ScalarOk(Entries(x)[i])

C5_ScalarArrayInOrder ==
    (Done /\ GotResponse /\ ScalarArray(ParamValue(src[2]))) =>
        /\ res.e = NoErr /\ OneResult
        /\ Kind(Result) = "Array"
        /\ Len(Result[2]) = Len(Entries(ParamValue(src[2])))
        /\ \A i \in 1..Len(Result[2]) :
              Result[2][i] = ScalarDen(Entries(ParamValue(src[2]))[i])

C5_Witness ==
    /\ Done
    /\ Got(Response(ArrayEl(<<Int4, Scalar("i4", <<" ", "1", "2", "\n">>), NilEl>>)))
    /\ res.v = ArrayV(<<ArrayV(<<IntV(4), IntV(12), NilV>>)>>)

(* C6: a well-formed struct with members decodes to the Struct whose keys  *)
(* are the names of its own members, each mapped to the decoding of its    *)
(* own value (a later duplicate overwrites); no member of an enclosing     *)
(* struct lands in a nested one, nor the reverse.                          *)

StructValue(x) == IsStruct(x) /\ WellFormed(x) /\ Len(Members(x)) >= 1

C6_StructOwnMembers ==
    (Done /\ GotResponse /\ StructValue(ParamValue(src[2]))) =>
        /\ res.e = NoErr /\ OneResult
        /\ Kind(Result) = "Struct"
        /\ DOMAIN Result[2] = {Members(ParamValue(src[2]))[i][1] :
                                  i \in 1..Len(Members(ParamValue(src[2])))}
        /\ Result = Den(ParamValue(src[2]))

(* C7: when a value nested in an array or a struct fails to decode, or the *)
(* stream stops inside the aggregate, Unmarshal returns an error; the      *)
(* aggregate never comes back with a nil error.                            *)

IsAggregate(x) == IsArray(x) \/ IsStruct(x)

BrokenInside ==
    \/ /\ GotResponse
       /\ IsAggregate(ParamValue(src[2]))
       /\ ~WellFormed(ParamValue(src[2]))
    \/ /\ src[1] = "cut"
       /\ IsResponse(src[2])
       /\ IsAggregate(ParamValue(src[2]))
       /\ src[3] >= 5
       /\ src[3] <= Len(Tokens(src[2])) - 5

C7_NestedErrorsPropagate == (Done /\ BrokenInside) => res.e # NoErr

(* C8: a response in which the params wrapper or the param wrapper around  *)
(* the result value is missing makes Unmarshal return a non-nil error.     *)

MissingWrapper(d) ==
    /\ IsRoot(d)
    /\ \/ Only(d, "params") /\ Only(d[3][1], "value")
       \/ Only(d, "param") /\ Only(d[3][1], "value")
       \/ Only(d, "value")

C8_MissingWrapperRejected ==
    (Done /\ GotDoc /\ MissingWrapper(src[2])) => res.e # NoErr

(* C9: round trip: Marshal of a value built from nil, booleans, integers,  *)
(* strings, byte sequences, Array and Struct succeeds, and Unmarshal of    *)
(* its output yields that value.                                           *)

Encoded == src[1] = "val"

C9_RoundTrip ==
    Encoded =>
        /\ merr = NoErr
        /\ pc # "failed"
        /\ Done => (res.e = NoErr /\ res.v = ArrayV(<<src[3]>>))

(* C10: the Fault made from the Struct decoded inside <fault> has, as      *)
(* Code, the number of the faultCode member, carried as numeric text or as *)
(* an integer, and 0 when it is missing or not numeric; as Message, the    *)
(* faultString member.                                                     *)

CodeOf(m) ==
    LET c == MapGet(m, FaultCodeKey)
    IN  IF Kind(c) = "int" THEN c[2]
        ELSE IF Kind(c) = "string" /\ Atoi(c[2]).ok THEN Atoi(c[2]).v
        ELSE 0

MessageOf(m) ==
    LET t == MapGet(m, FaultStringKey)
    IN  IF Kind(t) = "string" THEN t[2] ELSE <<>>

\* <fault> holding a struct of scalars, which the decoder reads as a Struct
FaultStructDoc(d) ==
    /\ IsFaultDoc(d) /\ Len(FaultKids(d)) = 1
    /\ IsStruct(FaultKids(d)[1]) /\ IsFlat(FaultKids(d)[1])
    /\ WellFormed(FaultKids(d)[1])

C10_FaultCodeProjection ==
    (Done /\ GotDoc /\ FaultStructDoc(src[2])) =>
        res.e = FaultErr(CodeOf(Den(FaultKids(src[2])[1])[2]),
                         MessageOf(Den(FaultKids(src[2])[1])[2]))

----------------------------------------------------------------------------
(* Reading a call of next on a received document *)

\* next was called on a whole document, standing before its token sub.at
Valued == pc = "value" /\ GotDoc

NoNode == El("", <<>>)

\* the element of the tree t whose start tag is the k-th token of Tokens(t)
RECURSIVE NodeAt(_, _)
RECURSIVE NodeIn(_, _)
NodeAt(t, k) ==
    IF t[1] = "tx" \/ k < 1 \/ k > Len(Tokens(t)) THEN NoNode
    ELSE IF k = 1 THEN t
    ELSE NodeIn(t[3], k - 1)
NodeIn(kids, k) ==
    IF kids = <<>> THEN NoNode
    ELSE LET n == Len(Tokens(Head(kids)))
         IN  IF k <= n THEN NodeAt(Head(kids), k) ELSE NodeIn(Tail(kids), k - n)

\* the element next was called on (the body is the prolog, then the tree)
Target == NodeAt(src[2], sub.at - 1)
\* the token after the end tag of that element
AfterTarget == sub.at + Len(Tokens(Target))

(* C11: decoding a struct with a member that lacks its name element, or    *)
(* its value element after the name, returns an error, whatever follows    *)
(* the struct in the stream; the value of a later sibling is never taken   *)
(* as the member's value.                                                  *)

MalformedStruct(x) ==
    /\ Tag(x) = "struct"
    /\ \E i \in 1..Len(x[3]) : ~IsMember(x[3][i])

C11_MalformedStructRejected ==
    (Valued /\ MalformedStruct(Target)) => sub.r.e # NoErr

(* C12: when next meets a start tag outside the accepted vocabulary (the   *)
(* scalar tags, struct, array, nil, fault and the wrapper tags), it        *)
(* returns a non-nil error; it never skips the element and returns a nil   *)
(* value with a nil error.                                                 *)

Vocabulary ==
    ScalarTags \cup {"struct", "array", "fault", "value", "name", "param",
                     "member", "params", "data", "methodResponse",
                     "methodCall", "methodName"}

UnknownTarget == Target # NoNode /\ Tag(Target) \notin Vocabulary

C12_UnknownTagRejected == (Valued /\ UnknownTarget) => sub.r.e # NoErr

----------------------------------------------------------------------------
(* The client: Client.Call and Call hand their http client and url to      *)
(* call, which builds the request, POSTs it, and, when a response comes    *)
(* back, registers the two deferred calls, checks the status and decodes   *)
(* the body.  The response body is the token stream body; rd counts the    *)
(* tokens read from it, by the decoder or by io.Copy.                      *)

\* what the caller can hand to call as its client: http.DefaultClient (the
\* package function Call), the client NewClient made, or one the caller
\* put into Client.HttpClient
HttpClients == {"http.DefaultClient", "NewClient", "replaced"}
Urls == {"url1", "url2"}

AddInt == <<"A", "d", "d", "I", "n", "t">>
CallNames == {AddInt, <<"a", "<", "&">>}
\* Go values of the kinds that have no XML-RPC representation
Unrepresentable == {<<"func">>, <<"chan">>, <<"ptr">>, <<"complex">>, <<"uintptr">>}

CallArgs ==
    {<<>>, <<IntV(1), IntV(2)>>, <<IntV(2), IntV(1)>>,
     <<StringV(<<"a">>), BoolV(TRUE), NilV>>,
     <<StructV(NameA :> IntV(7))>>, <<ArrayV(<<IntV(1)>>)>>,
     <<IntV(1), ArrayV(<<>>)>>}
      \cup {<<x>> : x \in Unrepresentable}
      \cup {<<IntV(1), x>> : x \in Unrepresentable}
      \cup {<<StructV(NameA :> x)>> : x \in Unrepresentable}

Statuses == {199, 200, 204, 299, 300, 404, 500}

\* bodies a server sends: results, a fault, something that is no XML-RPC,
\* and nothing
CallBodies ==
    {<< <<"P">> >> \o Tokens(d) :
        d \in {Response(Int4), Response(ArrayEl(<<Int2, Int4>>)), Response(S1),
               FaultDoc4, El("html", <<El("body", <<Tx(MsgText)>>)>>)}}
      \cup {<<>>, << <<"P">> >>}

\* r.StatusCode/100 != 2
StatusRejectedAbove399(st) == st >= 400
StatusRejected(st) == st \div 100 # 2

CallInit ==
    /\ pc = "call"
    /\ hc \in HttpClients
    /\ \E u \in Urls, n \in CallNames, a \in CallArgs : src = <<"call", u, n, a>>
    /\ body = <<>>
    /\ merr = NoErr
    /\ res = NoRes
    /\ wrote = <<>>
    /\ sub = NoSub
    /\ via = NotPosted
    /\ status = 0
    /\ open = FALSE
    /\ rd = 0
    /\ ret = NoRet
    /\ NoMore

\* makeRequest(name, args...): the buffer, or a panic when Marshal fails
MakeRequest ==
    /\ pc = "call"
    /\ LET m == Marshal(src[3], src[4], <<NameA, NameB>>)
       IN  /\ merr' = m.e
           /\ wrote' = m.out
           /\ pc' = IF m.e = NoErr THEN "request" ELSE "panic"
    /\ UNCHANGED <<src, body, res, sub, hc, via, status, open, rd, ret>>
    /\ UNCHANGED <<again, Client, calls>>

\* the client that performs the POST
Poster(client) == "http.DefaultClient"

\* http.DefaultClient.Post returns an error: return nil, e
PostFails ==
    /\ pc = "request"
    /\ via' = <<Poster(hc), src[2]>>
    /\ ret' = [v |-> NilV, e |-> Err("Post")]
    /\ pc' = "returned"
    /\ UNCHANGED <<src, body, merr, res, wrote, sub, hc, status, open, rd>>
    /\ UNCHANGED <<again, Client, calls>>

\* http.DefaultClient.Post returns the response r; the two defers are
\* registered
Post ==
    /\ pc = "request"
    /\ via' = <<Poster(hc), src[2]>>
    /\ \E st \in Statuses, b \in CallBodies :
         /\ status' = st
         /\ body' = b
    /\ open' = TRUE
    /\ rd' = 0
    /\ pc' = "response"
    /\ UNCHANGED <<src, merr, res, wrote, sub, hc, ret>>
    /\ UNCHANGED <<again, Client, calls>>

\* if r.StatusCode/100 != 2 { return nil, errors.New(...) }
RejectStatus ==
    /\ pc = "response"
    /\ StatusRejected(status)
    /\ ret' = [v |-> NilV, e |-> Err("Bad Request")]
    /\ pc' = "defer2"
    /\ UNCHANGED <<src, body, merr, res, wrote, sub, hc, via, status, open, rd>>
    /\ UNCHANGED <<again, Client, calls>>

\* _, v, e = Unmarshal(r.Body); return v, e.  The xml.Decoder reads the
\* body in blocks: at least what it decoded, at most all of it.
CallUnmarshal ==
    /\ pc = "response"
    /\ ~StatusRejected(status)
    /\ res' = Unmarshal(body)
    /\ ret' = [v |-> res'.v, e |-> res'.e]
    /\ \E n \in 0..Len(body) :
         /\ n >= (IF res'.p > Len(body) THEN Len(body) ELSE res'.p - 1)
         /\ rd' = n
    /\ pc' = "defer2"
    /\ UNCHANGED <<src, body, merr, wrote, sub, hc, via, status, open>>
    /\ UNCHANGED <<again, Client, calls>>

\* the defer registered last runs first: r.Body.Close()
DeferredClose ==
    /\ pc = "defer2"
    /\ open' = FALSE
    /\ pc' = "defer1"
    /\ UNCHANGED <<src, body, merr, res, wrote, sub, hc, via, status, rd, ret>>
    /\ UNCHANGED <<again, Client, calls>>

\* the defer registered first runs last: io.Copy(ioutil.Discard, r.Body);
\* a read of a closed response body fails and reads nothing
DeferredCopy ==
    /\ pc = "defer1"
    /\ rd' = IF open THEN Len(body) ELSE rd
    /\ pc' = "returned"
    /\ UNCHANGED <<src, body, merr, res, wrote, sub, hc, via, status, open, ret>>
    /\ UNCHANGED <<again, Client, calls>>

CallNext ==
    \/ MakeRequest \/ PostFails \/ Post \/ RejectStatus \/ CallUnmarshal
    \/ DeferredClose \/ DeferredCopy

CallSpec == CallInit /\ [][CallNext]_vars

\* call has returned after the POST gave a response
Returned == pc = "returned" /\ status # 0

(* C13: for every response whose status is not 2xx, call returns a non-nil *)
(* error and a nil result, and the decoder is never invoked on the body,   *)
(* whatever the body holds: Unmarshal has returned nothing, and nothing of *)
(* the body is read before the deferred calls run.                         *)

StatusChecked == pc \in {"defer2", "defer1", "returned"} /\ status # 0

C13_NonSuccessStatusIsAnError ==
    (StatusChecked /\ (status < 200 \/ status > 299)) =>
        /\ ret.e # NoErr
        /\ ret.v = NilV
        /\ res = NoRes
        /\ pc = "defer2" => rd = 0

C13_Witness ==
    /\ Returned
    /\ status = 404
    /\ body = << <<"P">> >> \o Tokens(Response(Int4))
    /\ ret = [v |-> NilV, e |-> Err("Bad Request")]
    /\ res = NoRes

(* C14: on every exit path of call after the POST returned a response      *)
(* (status not 2xx, decode failure, success), when call has returned the   *)
(* body is closed and has been read to its end; the reading happens while  *)
(* the body is open.                                                       *)

C14_DrainedAndClosed == Returned => (~open /\ rd = Len(body))

(* C20: the http client handed to call is the one that performs the POST,  *)
(* to the url handed to call: a Client whose HttpClient is not the         *)
(* process-wide default sends its requests through its own client.         *)

C20_PostThroughOwnClient == (via # NotPosted) => via = <<hc, src[2]>>

(* C15: Marshal with a non-empty method name and arguments a1..ak writes   *)
(* the prolog, methodCall with the escaped methodName, and params holding  *)
(* exactly k param > value entries, the i-th the typed encoding of ai, in  *)
(* argument order.                                                         *)

\* the request was built without error
Requested == pc = "request"

\* <param><value> e </value></param> for each encoding e of es, in order
RECURSIVE ParamEntries(_)
ParamEntries(es) ==
    IF es = <<>> THEN <<>>
    ELSE << <<"S", "param">>, <<"S", "value">> >> \o Head(es)
           \o << <<"E", "value">>, <<"E", "param">> >> \o ParamEntries(Tail(es))

CallFrame(name, es) ==
    << <<"P">>, <<"S", "methodCall">>, <<"S", "methodName">>,
       <<"C", EscapeText(name)>>, <<"E", "methodName">>, <<"S", "params">> >>
      \o ParamEntries(es)
      \o << <<"E", "params">>, <<"E", "methodCall">> >>

C15_MarshalParamsInOrder ==
    Requested =>
        wrote = CallFrame(src[3],
                          [i \in 1..Len(src[4]) |->
                              writeXML(src[4][i], TRUE, <<NameA, NameB>>).out])

IntEl(t) == << <<"S", "int">>, <<"C", t>>, <<"E", "int">> >>

C15_Witness ==
    /\ Requested
    /\ src[3] = AddInt
    /\ src[4] = <<IntV(1), IntV(2)>>
    /\ wrote = CallFrame(AddInt, <<IntEl(<<"1">>), IntEl(<<"2">>)>>)

----------------------------------------------------------------------------
(* The wire form of a value by the encoding rules, for nil, booleans,      *)
(* integers, strings and Arrays of them: what the encoder is compared      *)
(* with.                                                                   *)

RECURSIVE Wire(_)
RECURSIVE WireEntries(_)
Wire(v) ==
    CASE Kind(v) = "nil" -> << <<"S", "nil">>, <<"E", "nil">> >>
      [] Kind(v) = "bool" ->
           << <<"S", "boolean">>, <<"C", IF v[2] THEN <<"1">> ELSE <<"0">>>>,
              <<"E", "boolean">> >>
      [] Kind(v) = "int" -> IntEl(FormatInt(v[2]))
      [] Kind(v) = "string" ->
           << <<"S", "string">>, <<"C", EscapeText(v[2])>>, <<"E", "string">> >>
      [] Kind(v) = "Array" ->
           << <<"S", "array">>, <<"S", "data">> >> \o WireEntries(v[2])
             \o << <<"E", "data">>, <<"E", "array">> >>
WireEntries(vs) ==
    IF vs = <<>> THEN <<>>
    ELSE << <<"S", "value">> >> \o Wire(Head(vs)) \o << <<"E", "value">> >>
           \o WireEntries(Tail(vs))

\* values Wire is defined on, without booleans
RECURSIVE Plain(_)
Plain(v) ==
    \/ Kind(v) \in {"nil", "int", "string"}
    \/ Kind(v) = "Array" /\ \A i \in 1..Len(v[2]) : Plain(v[2][i])

\* what Marshal(name, v) is to write around the encoding e of v
Framed(name, e) ==
    IF name = <<>>
    THEN << <<"P">>, <<"S", "methodResponse">>, <<"S", "params">> >>
           \o ParamEntries(<<e>>)
           \o << <<"E", "params">>, <<"E", "methodResponse">> >>
    ELSE CallFrame(name, <<e>>)

(* C16: encoding an Array succeeds and writes <array><data>, each element  *)
(* in order encoded and wrapped in <value>, then </data></array>; it does  *)
(* not return UnsupportedType.                                             *)

C16_ArrayEncodes ==
    (Encoded /\ Kind(src[3]) = "Array" /\ Plain(src[3])) =>
        /\ merr = NoErr
        /\ wrote = Framed(src[2], Wire(src[3]))

(* C17: the encoder writes true as <boolean>1</boolean> and false as       *)
(* <boolean>0</boolean>, never as the words true and false.                *)

C17_BooleanWrittenNumeric ==
    (Encoded /\ Kind(src[3]) = "bool") =>
        /\ merr = NoErr
        /\ wrote = Framed(src[2], Wire(src[3]))

(* C18: decoding a boolean element whose text, with the white space around *)
(* it removed, is "1" or "true" yields true, "0" or "false" yields false,  *)
(* and every other text yields a non-nil error.                            *)

\* s without the white space before and after it
Strip(s) ==
    LET I == {i \in 1..Len(s) : s[i] \notin {" ", "\n", "\t", "\r"}}
    IN  IF I = {} THEN <<>>
        ELSE SubSeq(s, CHOOSE i \in I : \A j \in I : i <= j,
                       CHOOSE i \in I : \A j \in I : i >= j)

BooleanTarget == Valued /\ Tag(Target) = "boolean"

C18_BooleanSpellings ==
    BooleanTarget =>
        LET t == Strip(TextOf(Target))
        IN  IF t \in {<<"1">>, <<"t", "r", "u", "e">>}
            THEN sub.r.e = NoErr /\ sub.r.v = BoolV(TRUE)
            ELSE IF t \in {<<"0">>, <<"f", "a", "l", "s", "e">>}
                 THEN sub.r.e = NoErr /\ sub.r.v = BoolV(FALSE)
            ELSE sub.r.e # NoErr

C18_Witness ==
    /\ BooleanTarget
    /\ Target = Scalar("boolean", <<"\n", "t", "r", "u", "e", " ">>)
    /\ sub.r.e = NoErr
    /\ sub.r.v = BoolV(TRUE)

(* C19: whenever next returns a value without error, for a scalar, nil, a  *)
(* struct or an array, the stream stands right after that value's own end  *)
(* tag: nothing up to it is left unread, nothing after it has been read.   *)

ValueTarget == Valued /\ Tag(Target) \in ScalarTags \cup {"struct", "array"}

C19_PositionAfterOwnEndTag ==
    (ValueTarget /\ sub.r.e = NoErr) => sub.r.p = AfterTarget

(* C21: Call given an argument that has no XML-RPC representation (a       *)
(* function, channel, pointer, complex number or uintptr) returns the      *)
(* UnsupportedType error to its caller: it does not panic and it sends no  *)
(* HTTP request.                                                           *)

RECURSIVE HasUnrepresentable(_)
HasUnrepresentable(v) ==
    \/ v \in Unrepresentable
    \/ Kind(v) = "Struct" /\ \E k \in DOMAIN v[2] : HasUnrepresentable(v[2][k])

UnrepresentableArg == \E i \in 1..Len(src[4]) : HasUnrepresentable(src[4][i])

C21_UnsupportedArgumentReturned ==
    (UnrepresentableArg /\ pc # "call") =>
        /\ pc = "returned"
        /\ ret = [v |-> NilV, e |-> UnsupportedType]
        /\ via = NotPosted

(* C22: struct encoding is deterministic: two runs of writeXML on the same *)
(* Struct (map) value emit its members in the same order, so the two       *)
(* outputs are identical.                                                  *)

EncodedTwice == pc = "again"

C22_StructEncodingDeterministic ==
    (EncodedTwice /\ Kind(src[3]) = "Struct") =>
        /\ again.out = wrote
        /\ again.e = merr

(* C23: next and Unmarshal terminate on every finite token stream, well    *)
(* formed, malformed or truncated.  The decoder's position never moves     *)
(* back and never passes the end of the stream, and a nextStart or a next  *)
(* that returns without an error has consumed at least one token: every    *)
(* iteration of the struct, array and params loops and every recursive     *)
(* call of next either moves the position forward or returns an error,     *)
(* which ends the loop.  So the number of tokens left bounds the number of *)
(* iterations, and no loop spins at the end of the stream.                 *)

End == Len(body) + 1

\* a call that started at position at and returned r made progress
Progress(at, r) ==
    /\ at <= r.p
    /\ r.p <= End
    /\ (r.e = NoErr => r.p > at)

----------------------------------------------------------------------------
(* Two calls on one Client.  Each call runs Client.Call with its own       *)
(* locals (name, args, the buffer of makeRequest, the response r, the      *)
(* xml.Decoder of Unmarshal and the results v, e); the calls share the     *)
(* Client.  The steps of the two calls interleave in every order.          *)

Procs == {1, 2}

ConcArgs ==
    {<<IntV(1), IntV(2)>>, <<StringV(<<"a">>)>>, <<StructV(NameA :> IntV(7))>>,
     <<IntV(1), <<"chan">>>>}

ConcStatuses == {200, 500}

ConcBodies ==
    {<< <<"P">> >> \o Tokens(d) : d \in {Response(Int4), FaultDoc4}} \cup {<<>>}

NewCall(n, a) ==
    [pc |-> "call", name |-> n, args |-> a, hc |-> "none", url |-> "none",
     req |-> <<>>, via |-> NotPosted, status |-> 0, body |-> <<>>, ret |-> NoRet]

seqVars ==
    <<pc, src, body, merr, res, wrote, sub, hc, via, status, open, rd, ret, again>>

\* c := NewClient(url), or a Client whose HttpClient the caller replaced,
\* and two calls of c.Call about to start
ConcInit ==
    /\ pc = "conc"
    /\ src = <<"none">>
    /\ body = <<>>
    /\ merr = NoErr
    /\ res = NoRes
    /\ wrote = <<>>
    /\ sub = NoSub
    /\ NoCall
    /\ again = NoAgain
    /\ Client \in {[HttpClient |-> h, url |-> u] :
                      h \in {"NewClient", "replaced"}, u \in Urls}
    /\ calls \in [Procs -> {NewCall(AddInt, a) : a \in ConcArgs}]

\* return call(c.HttpClient, c.url, name, args...): the fields are read
ClientCall(i) ==
    /\ calls[i].pc = "call"
    /\ calls' = [calls EXCEPT ![i].hc = Client.HttpClient,
                              ![i].url = Client.url,
                              ![i].pc = "called"]
    /\ UNCHANGED Client
    /\ UNCHANGED seqVars

\* a buffer kept at package level, holding what the other call wrote
PackageBuffer(cs, i) == cs[3 - i].req

\* var buf bytes.Buffer: the buffer of this run of makeRequest, empty
NewBuffer(cs, i) == <<>>

\* Marshal(&buf, name, args...)
ConcMarshal(c) == Marshal(c.name, c.args, <<NameA, NameB>>)

\* makeRequest(name, args...)
ConcMakeRequest(i) ==
    /\ calls[i].pc = "called"
    /\ calls' = [calls EXCEPT
                   ![i].req = NewBuffer(calls, i) \o ConcMarshal(calls[i]).out,
                   ![i].pc = IF ConcMarshal(calls[i]).e = NoErr
                             THEN "request" ELSE "panic"]
    /\ UNCHANGED Client
    /\ UNCHANGED seqVars

\* Post returns an error: return nil, e
ConcPostFails(i) ==
    /\ calls[i].pc = "request"
    /\ calls' = [calls EXCEPT
                   ![i].via = <<Poster(calls[i].hc), calls[i].url>>,
                   ![i].ret = [v |-> NilV, e |-> Err("Post")],
                   ![i].pc = "returned"]
    /\ UNCHANGED Client
    /\ UNCHANGED seqVars

\* Post returns the response r
ConcPost(i) ==
    /\ calls[i].pc = "request"
    /\ \E st \in ConcStatuses, b \in ConcBodies :
         calls' = [calls EXCEPT
                     ![i].via = <<Poster(calls[i].hc), calls[i].url>>,
                     ![i].status = st,
                     ![i].body = b,
                     ![i].pc = "response"]
    /\ UNCHANGED Client
    /\ UNCHANGED seqVars

\* the status check, Unmarshal(r.Body) with its own xml.Decoder, the
\* deferred calls on r.Body, and the return
ConcReturn(i) ==
    /\ calls[i].pc = "response"
    /\ calls' = [calls EXCEPT
                   ![i].ret = IF StatusRejected(calls[i].status)
                              THEN [v |-> NilV, e |-> Err("Bad Request")]
                              ELSE [v |-> Unmarshal(calls[i].body).v,
                                    e |-> Unmarshal(calls[i].body).e],
                   ![i].pc = "returned"]
    /\ UNCHANGED Client
    /\ UNCHANGED seqVars

ConcNext ==
    \E i \in Procs :
        \/ ClientCall(i) \/ ConcMakeRequest(i) \/ ConcPostFails(i)
        \/ ConcPost(i) \/ ConcReturn(i)

ConcSpec == ConcInit /\ [][ConcNext]_vars

(* C24: Call never writes a field of the Client, and the codec keeps no    *)
(* state between invocations: under every interleaving of two Calls on the *)
(* same Client, the request bytes and the returned result of each Call are *)
(* those the Call produces alone, from its own name and arguments and its  *)
(* own response.                                                           *)

\* what a call running alone sends for its name and arguments
AloneRequest(c) == Marshal(c.name, c.args, <<NameA, NameB>>).out

\* what a call running alone returns for the response it got
AloneReturn(c) ==
    IF c.status = 0 THEN [v |-> NilV, e |-> Err("Post")]
    ELSE IF c.status \notin 200..299 THEN [v |-> NilV, e |-> Err("Bad Request")]
    ELSE LET u == Unmarshal(c.body) IN [v |-> u.v, e |-> u.e]

AsAlone(c) ==
    /\ c.pc \in {"request", "response", "returned"} => c.req = AloneRequest(c)
    /\ c.pc = "returned" => c.ret = AloneReturn(c)

C24_CallsDoNotInterfere ==
    /\ [](\A i \in Procs : AsAlone(calls[i]))
    /\ [][Client' = Client]_vars

\* one call has returned its decoded result while the other, with another
\* request and another response, is still between its Post and its return
C24_Witness ==
    /\ pc = "conc"
    /\ calls[1].pc = "returned"
    /\ calls[1].status = 200
    /\ calls[1].ret.e = NoErr
    /\ Kind(calls[1].ret.v) = "Array"
    /\ calls[2].pc = "response"
    /\ calls[2].req # calls[1].req
    /\ calls[2].body # calls[1].body

====
